---- MODULE Spec2Model ----
(***************************************************************************)
(* Round engine of the crash game: src/controllers/GameController.js.      *)
(*                                                                         *)
(* Money is counted in hundredths of a currency unit and multipliers in    *)
(* hundredths (1.00x = 100).  The source computes crash points and         *)
(* winnings in double precision; the products and quotients are computed   *)
(* here as the source computes them, rounded to 53 significant bits, on    *)
(* naturals held as sequences of 13-bit limbs.  A hash is the sequence of  *)
(* its first 13 hexadecimal digits (the only part the source reads), most  *)
(* significant digit first.                                                *)
(*                                                                         *)
(* The store (Mongoose models) is modelled as the source uses it: a find   *)
(* resolves to a private copy of the stored document, and save() writes    *)
(* the paths the caller changed on its copy (a pushed bet, a bet's         *)
(* cashedOut flag, the round's crashMultiplier and roundHash).  A user's   *)
(* balances are a Map; the handlers read and assign balances[currency],    *)
(* a property of the copy that is no entry of the Map, so that no save     *)
(* writes a balance.  Every await is a step boundary: other handlers and   *)
(* timers run between the steps of one handler.                            *)
(***************************************************************************)
EXTENDS Integers, Sequences, FiniteSets, TLC

\* ----------------------------------------------------------------- bounds
MaxRounds == 2       \* rounds the engine creates in one run
MaxRequests == 3     \* client requests issued in one run
MaxFailures == 1     \* store operations that fail in one run
MaxWork == 10        \* size of one run: a cashout counts one, a bet two,
                     \* a round four

\* ------------------------------------------------------ program constants
CountdownStart == 10
RevealEvery == 100
DefaultBalance == 100000
HouseModulus == 33
HashDigits == 13

Procs == {1, 2}                 \* client connections with a request in flight
Wallets == {"w1", "w2"}         \* wallet addresses clients send
Registered == {"w1"}            \* wallets that have a User document
Amounts == {0, 60000}           \* bet amounts clients send
Callers == {1, 2}
SeedPool == {1, 2}              \* server seeds generateServerSeed can draw
HexDigit == 0..15

\* ---------------------------------------------------------- hash helpers
\* Server seed s stands for the 64-digit hex string of the number
\* SeedNumber[s]; sha256 is given by its values on the strings the model
\* hashes.
SeedNumber == <<57, 38>>

\* sha256(serverSeed), first 7 hex digits read as a number
sha256 == <<260708807, 133901794>>

\* sha256(serverSeed ":global_client_seed:" nonce) for nonce 1..6
RoundHashLow ==
  << << <<14,2,15,15,8,4,12,14,4,10,7,9,0>>,
        <<6,8,10,1,3,2,12,1,12,4,15,13,4>>,
        <<11,13,1,15,3,15,0,7,0,10,11,8,5>>,
        <<5,11,6,7,5,3,12,1,9,7,7,7,0>>,
        <<8,15,7,14,8,6,6,11,8,15,14,0,13>>,
        <<7,2,15,5,2,8,7,15,3,14,6,11,7>> >>,
     << <<1,4,8,6,1,12,9,5,1,8,1,10,7>>,
        <<14,12,1,7,2,12,14,5,10,0,7,0,0>>,
        <<7,10,7,4,13,1,7,0,14,7,10,4,13>>,
        <<13,11,10,13,1,12,6,9,11,15,1,0,9>>,
        <<6,5,6,5,9,14,12,3,12,2,9,0,2>>,
        <<8,2,2,6,8,0,9,8,1,1,14,1,3>> >> >>

\* the same for nonce 98..104
RoundHashHigh ==
  << << <<3,12,2,2,2,10,2,6,1,11,5,9,2>>,
        <<2,12,7,8,2,1,9,14,10,8,10,15,13>>,
        <<14,3,11,14,4,14,10,15,12,0,11,9,8>>,
        <<11,13,12,15,0,7,5,11,1,13,11,11,14>>,
        <<2,15,3,8,9,13,1,2,2,7,15,9,5>>,
        <<13,15,5,8,5,4,3,0,7,7,11,12,9>>,
        <<2,6,9,0,8,8,10,7,11,0,15,4,1>> >>,
     << <<9,14,7,4,7,6,12,2,5,7,6,5,5>>,
        <<13,6,11,14,6,9,5,1,4,3,9,1,8>>,
        <<4,1,9,7,15,3,14,4,14,5,14,14,14>>,
        <<9,8,9,14,8,15,10,1,5,0,6,7,4>>,
        <<9,9,2,11,15,9,0,14,0,11,13,14,8>>,
        <<9,0,10,7,9,11,6,6,8,9,9,3,8>>,
        <<14,1,11,4,7,9,9,0,14,2,8,11,10>> >> >>

\* nonces the tables cover
KnownNonce(n) == (n >= 1 /\ n <= 6) \/ (n >= 98 /\ n <= 104)

getRoundHash(serverSeed, nonce) ==
  IF nonce <= 6 THEN RoundHashLow[serverSeed][nonce]
                ELSE RoundHashHigh[serverSeed][nonce - 97]

\* h % 33 of the number written by the hex digits d[i..]
RECURSIVE HexMod(_, _, _)
HexMod(d, i, acc) ==
  IF i > Len(d) THEN acc
  ELSE HexMod(d, i + 1, (acc * 16 + d[i]) % HouseModulus)

\* ------------------------------------------------- double arithmetic
\* A natural number is the sequence of its digits in base 2^13, least
\* significant first, without leading zeros (0 is << >>).  A double is a
\* record [m, e] that stands for m * 2^e, m a natural of at most 53 bits
\* (or 2^53).  Products and quotients are rounded to 53 significant bits,
\* ties to even, as IEEE 754 binary64 does.  Only non-negative finite values
\* in the normal range occur.
Base == 8192
LimbBits == 13
Mantissa == 53

RECURSIVE Trim(_)
Trim(x) ==
  IF x = <<>> \/ x[Len(x)] # 0 THEN x ELSE Trim(SubSeq(x, 1, Len(x) - 1))

\* digits that may exceed the base, with incoming carry c, made proper
RECURSIVE Carry(_, _)
Carry(x, c) ==
  IF x = <<>>
  THEN IF c = 0 THEN <<>> ELSE <<c % Base>> \o Carry(<<>>, c \div Base)
  ELSE <<(Head(x) + c) % Base>> \o Carry(Tail(x), (Head(x) + c) \div Base)

\* the natural n < 2^31 as digits, and back
Limbs(n) == Carry(<<>>, n)

RECURSIVE Value(_)
Value(x) == IF x = <<>> THEN 0 ELSE Head(x) + Base * Value(Tail(x))

Limb(x, i) == IF i >= 1 /\ i <= Len(x) THEN x[i] ELSE 0

Add(x, y) ==
  LET n == IF Len(x) > Len(y) THEN Len(x) ELSE Len(y)
  IN Trim(Carry([i \in 1..n |-> Limb(x, i) + Limb(y, i)], 0))

\* x - y for x >= y, with borrow b
RECURSIVE Borrow(_, _, _, _)
Borrow(x, y, i, b) ==
  IF i > Len(x) THEN <<>>
  ELSE LET t == x[i] - Limb(y, i) - b
       IN <<(t + Base) % Base>> \o Borrow(x, y, i + 1, IF t < 0 THEN 1 ELSE 0)

Sub(x, y) == Trim(Borrow(x, y, 1, 0))

\* x < y, comparing from digit i downwards
RECURSIVE LessFrom(_, _, _)
LessFrom(x, y, i) ==
  IF i = 0 THEN FALSE
  ELSE IF x[i] # y[i] THEN x[i] < y[i]
  ELSE LessFrom(x, y, i - 1)

Less(x, y) ==
  IF Len(x) # Len(y) THEN Len(x) < Len(y) ELSE LessFrom(x, y, Len(x))

\* x * k for a natural k < 2^17
MulSmall(x, k) == Trim(Carry([i \in 1..Len(x) |-> x[i] * k], 0))

\* sum of the digit products x[i] * y[k + 1 - i] that fall in column k
RECURSIVE Column(_, _, _, _)
Column(x, y, k, i) ==
  IF i > Len(x) \/ i > k THEN 0
  ELSE Limb(x, i) * Limb(y, k + 1 - i) + Column(x, y, k, i + 1)

\* x * y for factors of at most five digits each
Mul(x, y) ==
  IF x = <<>> \/ y = <<>> THEN <<>>
  ELSE Trim(Carry([k \in 1..(Len(x) + Len(y) - 1) |-> Column(x, y, k, 1)], 0))

RECURSIVE Bits(_)
Bits(n) == IF n = 0 THEN 0 ELSE 1 + Bits(n \div 2)

BitLength(x) ==
  IF x = <<>> THEN 0 ELSE LimbBits * (Len(x) - 1) + Bits(x[Len(x)])

\* bit i of x, bit 0 the least significant
Bit(x, i) == (Limb(x, i \div LimbBits + 1) \div 2^(i % LimbBits)) % 2

\* floor(x / 2^d)
ShiftRight(x, d) ==
  LET w == d \div LimbBits
      b == d % LimbBits
  IN IF Len(x) <= w THEN <<>>
     ELSE Trim([k \in 1..(Len(x) - w) |->
                  (x[k + w] \div 2^b)
                    + (Limb(x, k + w + 1) % 2^b) * 2^(LimbBits - b)])

\* x * 2^d
ShiftLeft(x, d) ==
  IF x = <<>> THEN <<>>
  ELSE [i \in 1..(d \div LimbBits) |-> 0] \o MulSmall(x, 2^(d % LimbBits))

\* floor(x / k) and x mod k for a natural 0 < k < 2^17, from digit i down
RECURSIVE DivSmallFrom(_, _, _, _, _)
DivSmallFrom(x, k, i, q, r) ==
  IF i = 0 THEN [q |-> Trim(q), r |-> Limbs(r)]
  ELSE LET t == r * Base + x[i]
       IN DivSmallFrom(x, k, i - 1, <<t \div k>> \o q, t % k)

\* one digit n of the dividend brought down bit by bit, from bit i down:
\* quotient q and remainder r so far become 2^(i+1) q + ... and the new rest
RECURSIVE DivBits(_, _, _, _, _)
DivBits(n, y, i, q, r) ==
  IF i < 0 \/ Len(q) < 0 THEN [q |-> q, r |-> r]
  ELSE LET r2 == Add(MulSmall(r, 2), Limbs((n \div 2^i) % 2))
           fits == ~Less(r2, y)
       IN DivBits(n, y, i - 1,
                  Add(MulSmall(q, 2), Limbs(IF fits THEN 1 ELSE 0)),
                  IF fits THEN Sub(r2, y) ELSE r2)

\* floor(x / y) and x mod y by long division from digit i down
RECURSIVE DivBigFrom(_, _, _, _, _)
DivBigFrom(x, y, i, q, r) ==
  IF i = 0 \/ Len(q) > Len(x) THEN [q |-> q, r |-> r]
  ELSE LET s == DivBits(x[i], y, LimbBits - 1, q, r)
       IN DivBigFrom(x, y, i - 1, s.q, s.r)

DivMod(x, y) ==
  IF Len(y) = 1 THEN DivSmallFrom(x, y[1], Len(x), <<>>, 0)
  ELSE DivBigFrom(x, y, Len(x), <<>>, <<>>)

\* x * 2^e rounded to a double, ties to even; sticky tells that the exact
\* value lies above x * 2^e by less than 2^e
Round(x, sticky, e) ==
  LET d == BitLength(x) - Mantissa
  IN IF d <= 0 THEN [m |-> x, e |-> e]
     ELSE LET q == ShiftRight(x, d)
              half == Bit(x, d - 1) = 1
              rest == sticky \/ ShiftLeft(ShiftRight(x, d - 1), d - 1) # x
              odd == Bit(x, d) = 1
          IN [m |-> IF half /\ (rest \/ odd) THEN Add(q, <<1>>) ELSE q,
              e |-> e + d]

\* the double of a natural
Float(x) == Round(x, FALSE, 0)

\* x * y in doubles
FloatMul(x, y) == Round(Mul(x.m, y.m), FALSE, x.e + y.e)

\* x / y in doubles, y # 0: the quotient is taken to 55 bits or more
FloatDiv(x, y) ==
  LET need == Mantissa + 2 + BitLength(y.m) - BitLength(x.m)
      k == IF need > 0 THEN need ELSE 0
      d == DivMod(ShiftLeft(x.m, k), y.m)
  IN Round(d.q, d.r # <<>>, x.e - y.e - k)

\* Math.floor of a double, as a natural
Floor(x) == IF x.e >= 0 THEN ShiftLeft(x.m, x.e) ELSE ShiftRight(x.m, 0 - x.e)

\* the double nearest to n / 100: what a two-decimal literal parses to
Hundredths(n) == FloatDiv(Float(Limbs(n)), Float(Limbs(100)))

\* parseInt(hex, 16) of the digits d[i..], on top of acc
RECURSIVE ParseHex(_, _, _)
ParseHex(d, i, acc) ==
  IF i > Len(d) \/ Len(acc) > Len(d) THEN acc
  ELSE ParseHex(d, i + 1, Add(MulSmall(acc, 16), Limbs(d[i])))

\* 2 ** 52
TwoTo52 == ShiftLeft(<<1>>, 52)

\* lines 22-26, in hundredths: the product 100 * (e - h) and the quotient by
\* e - 1 are doubles
getBustMultiplier(hash) ==
  LET h == ParseHex(SubSeq(hash, 1, HashDigits), 1, <<>>)
      e == TwoTo52
      result == FloatDiv(FloatMul(Float(Limbs(100)), Float(Sub(e, h))),
                         Float(Sub(e, <<1>>)))
  IN IF HexMod(SubSeq(hash, 1, HashDigits), 1, 0) = 0 THEN 100
     ELSE Value(Floor(result))

\* the round hashes of the tables and their crash points, computed once
RoundHashes ==
  {getRoundHash(s, n) : s \in SeedPool, n \in (1..6) \cup (98..104)}

CrashPoints == [hash \in RoundHashes |-> getBustMultiplier(hash)]

\* parseFloat(Math.pow(2, timeElapsed / 10).toFixed(2)) after n additions of
\* 0.05 to timeElapsed, n = 1..24
MultiplierTable ==
  <<100, 101, 101, 101, 102, 102, 102, 103, 103, 104, 104, 104,
    105, 105, 105, 106, 106, 106, 107, 107, 108, 108, 108, 109>>

MultiplierAt(n) == MultiplierTable[n]

\* Math.floor(bet.amount * currentMultiplier * 100) / 100, in hundredths:
\* amount and multiplier are the doubles of their two-decimal values and
\* both products are doubles
Winnings(amount, multiplier) ==
  Value(Floor(FloatMul(FloatMul(Hundredths(amount), Hundredths(multiplier)),
                       Float(Limbs(100)))))

\* the multipliers the curve takes and the winnings of the amounts clients
\* send at each of them, computed once
Multipliers == {100} \cup {MultiplierAt(n) : n \in 1..Len(MultiplierTable)}

Payouts == [amount \in Amounts, multiplier \in Multipliers |->
              Winnings(amount, multiplier)]

\* --------------------------------------------------- balances of a user
\* what a JavaScript expression can hold: a number, undefined or NaN
Number(n) == [kind |-> "number", number |-> n]
Undefined == [kind |-> "undefined", number |-> 0]
NaN == [kind |-> "NaN", number |-> 0]

\* user.balances[currency] on a document as found: balances is a Map
\* (User.js line 9), whose entries are reached with get() and are not
\* properties of the object; the name size is the Map's own count of
\* entries, 1 for the default balances (1.00 in hundredths)
BalanceProperty(currency) ==
  IF currency = "size" THEN Number(100) ELSE Undefined

\* user.balances[currency] after an assignment of value to it: size has a
\* getter and no setter, and outside strict mode the assignment is dropped
Assigned(currency, old, value) == IF currency = "size" THEN old ELSE value

\* x < y, x - y and x + y for a number y: undefined converts to NaN, and
\* NaN is less than nothing
JsLess(x, y) == x.kind = "number" /\ x.number < y
JsMinus(x, y) == IF x.kind = "number" THEN Number(x.number - y) ELSE NaN
JsPlus(x, y) == IF x.kind = "number" THEN Number(x.number + y) ELSE NaN

\* ------------------------------------------------------------------ state
VARIABLES
  gameState, isRunning, currentMultiplier, timeElapsed,   \* module globals
  epc,            \* where the engine (startGame / endGame and timers) stands
  seedDoc,        \* startGame's seedDoc
  round,          \* startGame's round: index of its document in rounds
  countdown,      \* the countdown of each startGame call that has set its
                  \* interval, oldest first; an interval runs while >= 0
  roundHash,      \* the start timeout's roundHash
  crashPoint,     \* the start timeout's crashPoint
  endCrash,       \* crashMultiplier set on endGame's copy of the round
  currentSeed,    \* endGame's currentSeed: index of its document in seeds
  users,          \* User collection: wallet -> balance
  rounds,         \* GameRound collection, oldest first
  seeds,          \* ProvablyFairSeed collection, oldest first
  archived,       \* GameRound documents older than the ones in rounds
  hpc,            \* where each connection's handler stands
  hloc,           \* each handler's locals
  resp,           \* the direct response to each connection's last request
  bcast,          \* what has been broadcast to observers
  placed,         \* requests answered BET_PLACED, in order
  wins,           \* requests answered CASHOUT_SUCCESS, in order
  nreq, nfail,    \* bets and cashouts issued, store failures so far
  hashIn, bustOut, \* input and output of getBustMultiplier on its own
  interval,       \* rounds whose tick interval (line 116) is set
  spc, sdoc       \* concurrent ensureSeed calls: position and seedDoc of each

clockVars == <<gameState, isRunning, currentMultiplier, timeElapsed>>
engineVars == <<epc, seedDoc, round, countdown, roundHash, crashPoint,
                endCrash, currentSeed, interval>>
storeVars == <<users, rounds, seeds, archived>>
handlerVars == <<hpc, hloc, resp>>
ghostVars == <<bcast, placed, wins>>
pureVars == <<hashIn, bustOut, spc, sdoc>>
vars == <<clockVars, engineVars, storeVars, handlerVars, ghostVars,
          nreq, nfail, pureVars>>

NoSeed == [serverSeed |-> 0, serverSeedHash |-> 0, revealed |-> FALSE, id |-> 0]
NoLocals == [wallet |-> "", amount |-> 0, currency |-> "", bal |-> Undefined,
             rnd |-> 0, bidx |-> 0, win |-> 0]
NoBroadcast == [started |-> <<>>, crashed |-> <<>>, revealed |-> <<>>]

\* a database left by an earlier run of the server: 99 closed rounds (the
\* last one kept in rounds) and the seed they were played under
OldSeed == [serverSeed |-> 1, serverSeedHash |-> sha256[1], revealed |-> FALSE,
            id |-> 1]
OldRound == [seedHash |-> sha256[1], crashMultiplier |-> 100,
             roundHash |-> getRoundHash(1, 99), bets |-> <<>>]

InitCommon ==
  /\ gameState = "waiting"
  /\ isRunning = FALSE
  /\ currentMultiplier = 100
  /\ timeElapsed = 0
  /\ epc = "init"
  /\ seedDoc = NoSeed
  /\ round = 0
  /\ countdown = <<>>
  /\ roundHash = <<>>
  /\ crashPoint = 0
  /\ endCrash = 0
  /\ currentSeed = 0
  /\ users = [w \in Registered |-> DefaultBalance]
  /\ hpc = [p \in Procs |-> "idle"]
  /\ hloc = [p \in Procs |-> NoLocals]
  /\ resp = [p \in Procs |-> "-"]
  /\ bcast = NoBroadcast
  /\ placed = <<>>
  /\ wins = <<>>
  /\ nreq = [bets |-> 0, cashouts |-> 0]
  /\ interval = {}
  /\ spc = [c \in Callers |-> "idle"]
  /\ sdoc = [c \in Callers |-> NoSeed]

\* the store at start-up: empty, or as the earlier run left it
EmptyStore == archived = 0 /\ rounds = <<>> /\ seeds = <<>>
OldStore == archived = 98 /\ rounds = <<OldRound>> /\ seeds = <<OldSeed>>

\* the server starts on whatever the database holds
Init ==
  /\ InitCommon
  /\ nfail = 0
  /\ EmptyStore \/ OldStore
  /\ hashIn = <<>>
  /\ bustOut = 0

\* ------------------------------------------------------------ store helpers
\* outcomes of one store operation: TRUE resolves, FALSE rejects
StoreOutcomes == IF nfail < MaxFailures THEN {TRUE, FALSE} ELSE {TRUE}

countDocuments == archived + Len(rounds)

\* ProvablyFairSeed.findOne({ revealed: false }): index of the first
\* unrevealed seed, 0 when there is none
Unrevealed == {i \in 1..Len(seeds) : ~seeds[i].revealed}
findUnrevealed ==
  IF Unrevealed = {} THEN 0
  ELSE CHOOSE i \in Unrevealed : \A j \in Unrevealed : i <= j

\* rounds created since the server started
Created == Len(rounds) - (IF archived > 0 THEN 1 ELSE 0)

\* rounds begun since the server started: created, or being set up by a
\* startGame call
Begun ==
  Created + (IF epc \in {"ensureSeed_find", "ensureSeed_save", "round_create"}
             THEN 1 ELSE 0)

\* requests issued so far, and the size of the run so far
Requests == nreq.bets + nreq.cashouts
Work == 4 * Begun + 2 * nreq.bets + nreq.cashouts

\* the bounds of a run leave room for one more round, bet or cashout
RoomForRound == Created < MaxRounds /\ Work + 4 <= MaxWork
RoomForBet == Requests < MaxRequests /\ Work + 2 <= MaxWork
RoomForCashout == Requests < MaxRequests /\ Work + 1 <= MaxWork

\* ------------------------------------------------------------- the engine
\* A rejected store call inside startGame's try block (lines 60-134) is
\* caught at line 135, which logs: the engine stands at "dead" and nothing
\* calls startGame again.  A rejection in the start timeout's callback or in
\* endGame is caught by no one: the engine stands at "unhandled".  The
\* runtime reports it and, unless the deployment says otherwise, ends the
\* process, after which no callback runs any more; a behaviour shows that as
\* no further step.
\* startGame called at server start only: endGame's timeout of line 171 missing
StartGame_once ==
  /\ epc = "init"
  /\ RoomForRound
  /\ gameState' = "waiting"
  /\ isRunning' = FALSE
  /\ currentMultiplier' = 100
  /\ timeElapsed' = 0
  /\ epc' = "ensureSeed_find"
  /\ UNCHANGED <<seedDoc, round, countdown, roundHash, crashPoint, endCrash,
                 currentSeed, storeVars, handlerVars, ghostVars, nreq, nfail,
                 pureVars, interval>>

\* startGame, lines 59-68: reset the clock state, then await ensureSeed()
StartGame ==
  /\ epc \in {"init", "cooldown"}
  /\ RoomForRound
  /\ gameState' = "waiting"
  /\ isRunning' = FALSE
  /\ currentMultiplier' = 100
  /\ timeElapsed' = 0
  /\ epc' = "ensureSeed_find"
  /\ UNCHANGED <<seedDoc, round, countdown, roundHash, crashPoint, endCrash,
                 currentSeed, storeVars, handlerVars, ghostVars, nreq, nfail,
                 pureVars,
                 interval>>

\* ensureSeed, lines 48-52: the find resolves; a missing seed is generated
EnsureSeedFind ==
  /\ epc = "ensureSeed_find"
  /\ \E ok \in StoreOutcomes :
       IF ~ok
       THEN /\ epc' = "dead"
            /\ nfail' = nfail + 1
            /\ UNCHANGED seedDoc
       ELSE /\ nfail' = nfail
            /\ IF findUnrevealed # 0
               THEN /\ seedDoc' = seeds[findUnrevealed]
                    /\ epc' = "round_create"
               ELSE /\ \E s \in SeedPool \ {seeds[i].serverSeed : i \in 1..Len(seeds)} :
                         seedDoc' = [serverSeed |-> s, serverSeedHash |-> sha256[s],
                                     revealed |-> FALSE, id |-> 0]
                    /\ epc' = "ensureSeed_save"
  /\ UNCHANGED <<clockVars, round, countdown, roundHash, crashPoint, endCrash,
                 currentSeed, storeVars, handlerVars, ghostVars, nreq, pureVars,
                 interval>>

\* ensureSeed, lines 53-55: the new seed document is saved
EnsureSeedSave ==
  /\ epc = "ensureSeed_save"
  /\ \E ok \in StoreOutcomes :
       IF ~ok
       THEN /\ epc' = "dead"
            /\ nfail' = nfail + 1
            /\ UNCHANGED <<seeds, seedDoc>>
       ELSE /\ nfail' = nfail
            /\ seedDoc' = [seedDoc EXCEPT !.id = Len(seeds) + 1]
            /\ seeds' = Append(seeds, seedDoc')
            /\ epc' = "round_create"
  /\ UNCHANGED <<clockVars, round, countdown, roundHash, crashPoint, endCrash,
                 currentSeed, users, rounds, archived, handlerVars, ghostVars,
                 nreq, pureVars,
                 interval>>

\* startGame, lines 71-133: the new round is saved, GAME_WAITING is broadcast
\* and the countdown interval and the start timeout are set
RoundCreate ==
  /\ epc = "round_create"
  /\ \E ok \in StoreOutcomes :
       IF ~ok
       THEN /\ epc' = "dead"
            /\ nfail' = nfail + 1
            /\ UNCHANGED <<rounds, round, countdown>>
       ELSE /\ nfail' = nfail
            /\ rounds' = Append(rounds, [seedHash |-> seedDoc.serverSeedHash,
                                         crashMultiplier |-> 0,
                                         roundHash |-> <<>>,
                                         bets |-> <<>>])
            /\ round' = Len(rounds) + 1
            /\ countdown' = Append(countdown, CountdownStart)
            /\ epc' = "countdown"
  /\ UNCHANGED <<clockVars, seedDoc, roundHash, crashPoint, endCrash,
                 currentSeed, users, seeds, archived, handlerVars, ghostVars,
                 nreq, pureVars,
                 interval>>

\* a countdown interval fires, lines 85-89: every startGame call has its
\* own countdown and interval, and the interval of an earlier call may still
\* be running beside the one of a later call
CountdownTick ==
  /\ \E call \in 1..Len(countdown) :
       /\ countdown[call] >= 0
       /\ countdown' = [countdown EXCEPT ![call] = @ - 1]
  /\ UNCHANGED <<clockVars, epc, seedDoc, round, roundHash, crashPoint,
                 endCrash, currentSeed, storeVars, handlerVars, ghostVars,
                 nreq, nfail, pureVars,
                 interval>>

\* the start timeout, lines 92-97: it is set beside the countdown interval
\* and does not look at countdown
RoundStartTimeout ==
  /\ epc = "countdown"
  /\ gameState' = "running"
  /\ isRunning' = TRUE
  /\ epc' = "start_count"
  /\ UNCHANGED <<currentMultiplier, timeElapsed, seedDoc, round, countdown,
                 roundHash, crashPoint, endCrash, currentSeed, storeVars,
                 handlerVars, ghostVars, nreq, nfail, pureVars,
                 interval>>

\* the start timeout, lines 97-104: the count resolves, the crash point is
\* derived and set on the round
StartCount ==
  /\ epc = "start_count"
  /\ \E ok \in StoreOutcomes :
       IF ~ok
       THEN /\ epc' = "unhandled"
            /\ nfail' = nfail + 1
            /\ UNCHANGED <<roundHash, crashPoint>>
       ELSE /\ nfail' = nfail
            /\ KnownNonce(countDocuments)
            /\ roundHash' = getRoundHash(seedDoc.serverSeed, countDocuments)
            /\ crashPoint' = CrashPoints[roundHash']
            /\ epc' = "start_save"
  /\ UNCHANGED <<clockVars, seedDoc, round, countdown, endCrash, currentSeed,
                 storeVars, handlerVars, ghostVars, nreq, pureVars,
                 interval>>

\* the start timeout, lines 104-116: the round is saved, ROUND_STARTED is
\* broadcast and the tick interval is set
StartSave ==
  /\ epc = "start_save"
  /\ \E ok \in StoreOutcomes :
       IF ~ok
       THEN /\ epc' = "unhandled"
            /\ nfail' = nfail + 1
            /\ UNCHANGED <<rounds, bcast, timeElapsed, interval>>
       ELSE /\ nfail' = nfail
            /\ rounds' = [rounds EXCEPT ![round].crashMultiplier = crashPoint,
                                        ![round].roundHash = roundHash]
            /\ bcast' = [bcast EXCEPT
                           !.started = Append(@, [rnd |-> round,
                                                  seedHash |-> seedDoc.serverSeedHash])]
            /\ timeElapsed' = 0
            /\ interval' = interval \cup {round}
            /\ epc' = "ticking"
  /\ UNCHANGED <<gameState, isRunning, currentMultiplier, seedDoc, round,
                 countdown, roundHash, crashPoint, endCrash, currentSeed,
                 users, seeds, archived, handlerVars, placed, wins, nreq,
                 pureVars>>

\* the crash test of line 127
CrashReached(multiplier, point) == multiplier >= point

\* the tick interval of round r, lines 116-132; at the crash the interval is
\* cleared and endGame is called
Tick ==
  /\ \E r \in interval :
       /\ timeElapsed < Len(MultiplierTable)
       /\ timeElapsed' = timeElapsed + 1
       /\ currentMultiplier' = MultiplierAt(timeElapsed')
       /\ IF CrashReached(currentMultiplier', crashPoint)
          THEN /\ interval' = interval \ {r}
               /\ isRunning' = FALSE
               /\ epc' = "end_find"
          ELSE UNCHANGED <<interval, isRunning, epc>>
  /\ UNCHANGED <<gameState, seedDoc, round, countdown, roundHash, crashPoint,
                 endCrash, currentSeed, storeVars, handlerVars, ghostVars,
                 nreq, nfail, pureVars>>

\* endGame, lines 142-146: the round is found and its crashMultiplier set;
\* when the document is not in the store endGame returns (line 143) and
\* nothing starts the next round
EndFind ==
  /\ epc = "end_find"
  /\ \E ok \in StoreOutcomes :
       IF ~ok
       THEN /\ epc' = "unhandled"
            /\ nfail' = nfail + 1
            /\ UNCHANGED endCrash
       ELSE /\ nfail' = nfail
            /\ IF round \in 1..Len(rounds)
               THEN /\ endCrash' = currentMultiplier
                    /\ epc' = "end_save"
               ELSE /\ epc' = "dead"
                    /\ UNCHANGED endCrash
  /\ UNCHANGED <<clockVars, seedDoc, round, countdown, roundHash, crashPoint,
                 currentSeed, storeVars, handlerVars, ghostVars, nreq, pureVars,
                 interval>>

\* endGame, lines 146-152: the round is saved and ROUND_CRASHED broadcast
EndSave ==
  /\ epc = "end_save"
  /\ \E ok \in StoreOutcomes :
       IF ~ok
       THEN /\ epc' = "unhandled"
            /\ nfail' = nfail + 1
            /\ UNCHANGED <<rounds, bcast>>
       ELSE /\ nfail' = nfail
            /\ rounds' = [rounds EXCEPT ![round].crashMultiplier = endCrash]
            /\ bcast' = [bcast EXCEPT
                           !.crashed = Append(@, [rnd |-> round,
                                                  multiplier |-> currentMultiplier])]
            /\ epc' = "end_count"
  /\ UNCHANGED <<clockVars, seedDoc, round, countdown, roundHash, crashPoint,
                 endCrash, currentSeed, users, seeds, archived, handlerVars,
                 placed, wins, nreq, pureVars,
                 interval>>

\* endGame, lines 152-153 and 171: the count resolves; without a reveal the
\* cooldown timeout is set
EndCount ==
  /\ epc = "end_count"
  /\ \E ok \in StoreOutcomes :
       IF ~ok
       THEN /\ epc' = "unhandled"
            /\ nfail' = nfail + 1
       ELSE /\ nfail' = nfail
            /\ epc' = IF countDocuments % RevealEvery = 0 THEN "reveal_find"
                                                          ELSE "cooldown"
  /\ UNCHANGED <<clockVars, seedDoc, round, countdown, roundHash, crashPoint,
                 endCrash, currentSeed, storeVars, handlerVars, ghostVars,
                 nreq, pureVars,
                 interval>>

\* endGame, lines 154-157
RevealFind ==
  /\ epc = "reveal_find"
  /\ \E ok \in StoreOutcomes :
       IF ~ok
       THEN /\ epc' = "unhandled"
            /\ nfail' = nfail + 1
            /\ UNCHANGED currentSeed
       ELSE /\ nfail' = nfail
            /\ currentSeed' = findUnrevealed
            /\ epc' = IF findUnrevealed # 0 THEN "reveal_save" ELSE "cooldown"
  /\ UNCHANGED <<clockVars, seedDoc, round, countdown, roundHash, crashPoint,
                 endCrash, storeVars, handlerVars, ghostVars, nreq, pureVars,
                 interval>>

\* endGame, lines 158-171: the seed is saved as revealed and broadcast
RevealSave ==
  /\ epc = "reveal_save"
  /\ \E ok \in StoreOutcomes :
       IF ~ok
       THEN /\ epc' = "unhandled"
            /\ nfail' = nfail + 1
            /\ UNCHANGED <<seeds, bcast>>
       ELSE /\ nfail' = nfail
            /\ seeds' = [seeds EXCEPT ![currentSeed].revealed = TRUE]
            /\ bcast' = [bcast EXCEPT
                           !.revealed = Append(@,
                             [serverSeed |-> seeds[currentSeed].serverSeed,
                              serverSeedHash |-> seeds[currentSeed].serverSeedHash,
                              id |-> currentSeed,
                              rnd |-> round])]
            /\ epc' = "cooldown"
  /\ UNCHANGED <<clockVars, seedDoc, round, countdown, roundHash, crashPoint,
                 endCrash, currentSeed, users, rounds, archived, handlerVars,
                 placed, wins, nreq, pureVars,
                 interval>>

Engine ==
  \/ StartGame \/ EnsureSeedFind \/ EnsureSeedSave \/ RoundCreate
  \/ CountdownTick \/ RoundStartTimeout \/ StartCount \/ StartSave
  \/ Tick \/ EndFind \/ EndSave \/ EndCount \/ RevealFind \/ RevealSave

\* ------------------------------------------------------------ handleBet
\* the place-bet messages clients send: the registered wallet with each
\* amount, an unknown wallet, and a currency name that is a property of
\* every Map
BetRequests ==
  {[walletAddress |-> "w1", amount |-> a, currency |-> "USD"] : a \in Amounts}
  \cup {[walletAddress |-> "w2", amount |-> 60000, currency |-> "USD"],
        [walletAddress |-> "w1", amount |-> 60000, currency |-> "size"]}

Answer(p, message) == [resp EXCEPT ![p] = message]

\* connections are interchangeable: a new request takes the lowest free slot
FreeSlot(p) == hpc[p] = "idle" /\ \A q \in Procs : hpc[q] = "idle" => p <= q

\* a handler that has returned keeps no locals
Return(p) == /\ hpc' = [hpc EXCEPT ![p] = "idle"]
             /\ hloc' = [hloc EXCEPT ![p] = NoLocals]

\* GameRound.findOne().sort({ startTime: -1 }): index of the latest round,
\* 0 when the collection is empty
latestRound == Len(rounds)

\* handleBet, lines 175-182: the phase check, then await User.findOne
HandleBet(p) ==
  /\ FreeSlot(p)
  /\ RoomForBet
  /\ nreq' = [nreq EXCEPT !.bets = @ + 1]
  /\ \E data \in BetRequests :
       IF gameState # "waiting"
       THEN /\ resp' = Answer(p, "ERROR: Betting closed.")
            /\ UNCHANGED <<hpc, hloc>>
       ELSE /\ resp' = Answer(p, "pending")
            /\ hpc' = [hpc EXCEPT ![p] = "bet_user"]
            /\ hloc' = [hloc EXCEPT ![p] = [NoLocals EXCEPT
                                              !.wallet = data.walletAddress,
                                              !.amount = data.amount,
                                              !.currency = data.currency]]
  /\ UNCHANGED <<clockVars, engineVars, storeVars, ghostVars, nfail, pureVars>>

\* handleBet, lines 182-187: the user is found and the balance checked, then
\* await GameRound.findOne
BetUser(p) ==
  /\ hpc[p] = "bet_user"
  /\ \E ok \in StoreOutcomes :
       IF ~ok
       THEN /\ nfail' = nfail + 1
            /\ resp' = Answer(p, "unanswered")
            /\ Return(p)
       ELSE /\ nfail' = nfail
            /\ IF hloc[p].wallet \notin DOMAIN users
               THEN /\ resp' = Answer(p, "ERROR: User not found.")
                    /\ Return(p)
               ELSE IF JsLess(BalanceProperty(hloc[p].currency), hloc[p].amount)
               THEN /\ resp' = Answer(p, "ERROR: Insufficient balance.")
                    /\ Return(p)
               ELSE /\ hloc' = [hloc EXCEPT
                                      ![p].bal = BalanceProperty(hloc[p].currency)]
                    /\ hpc' = [hpc EXCEPT ![p] = "bet_round"]
                    /\ UNCHANGED resp
  /\ UNCHANGED <<clockVars, engineVars, storeVars, ghostVars, nreq, pureVars>>

\* handleBet, lines 187-192: the latest round is found, the bet is deducted
\* from the balance property of the handler's copy of the user, then await
\* user.save
BetRound(p) ==
  /\ hpc[p] = "bet_round"
  /\ \E ok \in StoreOutcomes :
       IF ~ok
       THEN /\ nfail' = nfail + 1
            /\ resp' = Answer(p, "unanswered")
            /\ Return(p)
       ELSE /\ nfail' = nfail
            /\ IF latestRound = 0
               THEN /\ resp' = Answer(p, "ERROR: No active round.")
                    /\ Return(p)
               ELSE /\ hloc' = [hloc EXCEPT ![p].rnd = latestRound,
                                            ![p].bal =
                                              Assigned(hloc[p].currency, @,
                                                       JsMinus(@, hloc[p].amount))]
                    /\ hpc' = [hpc EXCEPT ![p] = "bet_usave"]
                    /\ UNCHANGED resp
  /\ UNCHANGED <<clockVars, engineVars, storeVars, ghostVars, nreq, pureVars>>

\* handleBet, lines 192-195: the user is saved, the bet is pushed on the
\* handler's copy of the round, then await round.save; the save writes the
\* Map, which line 191 has not touched: the stored balance stays
BetUserSave(p) ==
  /\ hpc[p] = "bet_usave"
  /\ \E ok \in StoreOutcomes :
       IF ~ok
       THEN /\ nfail' = nfail + 1
            /\ resp' = Answer(p, "unanswered")
            /\ Return(p)
       ELSE /\ nfail' = nfail
            /\ hpc' = [hpc EXCEPT ![p] = "bet_rsave"]
            /\ UNCHANGED <<resp, hloc>>
  /\ UNCHANGED <<clockVars, engineVars, storeVars, ghostVars, nreq, pureVars>>

\* handleBet checking the phase again after the user was saved
BetRoundSave_recheck(p) ==
  /\ hpc[p] = "bet_rsave"
  /\ \E ok \in StoreOutcomes :
       IF ~ok
       THEN /\ nfail' = nfail + 1
            /\ resp' = Answer(p, "unanswered")
            /\ UNCHANGED <<rounds, placed>>
       ELSE /\ nfail' = nfail
            /\ IF gameState # "waiting"
               THEN /\ resp' = Answer(p, "ERROR: Betting closed.")
                    /\ UNCHANGED <<rounds, placed>>
               ELSE /\ rounds' = [rounds EXCEPT ![hloc[p].rnd].bets =
                                    Append(@, [walletAddress |-> hloc[p].wallet,
                                               amount |-> hloc[p].amount,
                                               currency |-> hloc[p].currency,
                                               cashedOut |-> FALSE])]
                    /\ resp' = Answer(p, "BET_PLACED")
                    /\ placed' = Append(placed, [wallet |-> hloc[p].wallet,
                                                 amount |-> hloc[p].amount,
                                                 rnd |-> hloc[p].rnd])
  /\ Return(p)
  /\ UNCHANGED <<clockVars, engineVars, users, seeds, archived, bcast,
                 wins, nreq, pureVars>>

\* handleBet, lines 195-198: the round is saved, BET_PLACED is sent and
\* PLAYER_BET broadcast
BetRoundSave(p) ==
  /\ hpc[p] = "bet_rsave"
  /\ \E ok \in StoreOutcomes :
       IF ~ok
       THEN /\ nfail' = nfail + 1
            /\ resp' = Answer(p, "unanswered")
            /\ UNCHANGED <<rounds, placed>>
       ELSE /\ nfail' = nfail
            /\ rounds' = [rounds EXCEPT ![hloc[p].rnd].bets =
                            Append(@, [walletAddress |-> hloc[p].wallet,
                                       amount |-> hloc[p].amount,
                                       currency |-> hloc[p].currency,
                                       cashedOut |-> FALSE])]
            /\ resp' = Answer(p, "BET_PLACED")
            /\ placed' = Append(placed, [wallet |-> hloc[p].wallet,
                                         amount |-> hloc[p].amount,
                                         rnd |-> hloc[p].rnd])
  /\ Return(p)
  /\ UNCHANGED <<clockVars, engineVars, users, seeds, archived, bcast,
                 wins, nreq, pureVars>>

\* --------------------------------------------------------- handleCashout
\* round.bets.find(b => b.walletAddress === walletAddress): index of the
\* wallet's first bet in the list, 0 when it has none
findBet(bets, walletAddress) ==
  LET mine == {i \in 1..Len(bets) : bets[i].walletAddress = walletAddress}
  IN IF mine = {} THEN 0 ELSE CHOOSE i \in mine : \A j \in mine : i <= j

\* handleCashout, lines 205-211: the isRunning check, then await
\* GameRound.findOne
HandleCashout(p) ==
  /\ FreeSlot(p)
  /\ RoomForCashout
  /\ nreq' = [nreq EXCEPT !.cashouts = @ + 1]
  /\ \E walletAddress \in Wallets :
       IF ~isRunning
       THEN /\ resp' = Answer(p, "ERROR: Cannot cash out now.")
            /\ UNCHANGED <<hpc, hloc>>
       ELSE /\ resp' = Answer(p, "pending")
            /\ hpc' = [hpc EXCEPT ![p] = "co_round"]
            /\ hloc' = [hloc EXCEPT ![p] = [NoLocals EXCEPT !.wallet = walletAddress]]
  /\ UNCHANGED <<clockVars, engineVars, storeVars, ghostVars, nfail, pureVars>>

\* handleCashout, lines 211-216: the latest round is found and the wallet's
\* bet looked up in it, then await User.findOne; reading round.bets of a
\* missing round throws
CashoutRound(p) ==
  /\ hpc[p] = "co_round"
  /\ \E ok \in StoreOutcomes :
       IF ~ok \/ latestRound = 0
       THEN /\ nfail' = IF ok THEN nfail ELSE nfail + 1
            /\ resp' = Answer(p, "unanswered")
            /\ Return(p)
       ELSE LET bets == rounds[latestRound].bets
                bet == findBet(bets, hloc[p].wallet)
            IN /\ nfail' = nfail
               /\ IF bet = 0
                  THEN /\ resp' = Answer(p, "ERROR: No active bet.")
                       /\ Return(p)
                  ELSE IF bets[bet].cashedOut
                  THEN /\ resp' = Answer(p, "ERROR: Already cashed out.")
                       /\ Return(p)
                  ELSE /\ hloc' = [hloc EXCEPT ![p].rnd = latestRound,
                                               ![p].bidx = bet,
                                               ![p].amount = bets[bet].amount,
                                               ![p].currency = bets[bet].currency]
                       /\ hpc' = [hpc EXCEPT ![p] = "co_user"]
                       /\ UNCHANGED resp
  /\ UNCHANGED <<clockVars, engineVars, storeVars, ghostVars, nreq, pureVars>>

\* handleCashout, lines 216-219: the user is found, the winnings are
\* computed from currentMultiplier as it is now and added to the balance
\* property of the handler's copy of the user, then await user.save; reading
\* balances of a missing user throws
CashoutUser(p) ==
  /\ hpc[p] = "co_user"
  /\ \E ok \in StoreOutcomes :
       IF ~ok \/ hloc[p].wallet \notin DOMAIN users
       THEN /\ nfail' = IF ok THEN nfail ELSE nfail + 1
            /\ resp' = Answer(p, "unanswered")
            /\ Return(p)
       ELSE LET winnings == Payouts[hloc[p].amount, currentMultiplier]
                balance == BalanceProperty(hloc[p].currency)
            IN /\ nfail' = nfail
               /\ hloc' = [hloc EXCEPT ![p].win = winnings,
                                       ![p].bal =
                                         Assigned(hloc[p].currency, balance,
                                                  JsPlus(balance, winnings))]
               /\ hpc' = [hpc EXCEPT ![p] = "co_usave"]
               /\ UNCHANGED resp
  /\ UNCHANGED <<clockVars, engineVars, storeVars, ghostVars, nreq, pureVars>>

\* handleCashout, lines 219-222: the user is saved, the bet is flagged on
\* the handler's copy of the round, then await round.save; the save writes
\* the Map, which line 218 has not touched: the stored balance stays
CashoutUserSave(p) ==
  /\ hpc[p] = "co_usave"
  /\ \E ok \in StoreOutcomes :
       IF ~ok
       THEN /\ nfail' = nfail + 1
            /\ resp' = Answer(p, "unanswered")
            /\ Return(p)
       ELSE /\ nfail' = nfail
            /\ hpc' = [hpc EXCEPT ![p] = "co_rsave"]
            /\ UNCHANGED <<resp, hloc>>
  /\ UNCHANGED <<clockVars, engineVars, storeVars, ghostVars, nreq, pureVars>>

\* handleCashout, lines 222-238: the round is saved, CASHOUT_SUCCESS is sent
\* and PLAYER_CASHED_OUT broadcast, both with currentMultiplier as it is now
CashoutRoundSave(p) ==
  /\ hpc[p] = "co_rsave"
  /\ \E ok \in StoreOutcomes :
       IF ~ok
       THEN /\ nfail' = nfail + 1
            /\ resp' = Answer(p, "unanswered")
            /\ UNCHANGED <<rounds, wins>>
       ELSE /\ nfail' = nfail
            /\ rounds' = [rounds EXCEPT
                            ![hloc[p].rnd].bets[hloc[p].bidx].cashedOut = TRUE]
            /\ resp' = Answer(p, "CASHOUT_SUCCESS")
            /\ wins' = Append(wins, [wallet |-> hloc[p].wallet,
                                     rnd |-> hloc[p].rnd,
                                     bidx |-> hloc[p].bidx,
                                     winnings |-> hloc[p].win,
                                     multiplier |-> currentMultiplier])
  /\ Return(p)
  /\ UNCHANGED <<clockVars, engineVars, users, seeds, archived, bcast,
                 placed, nreq, pureVars>>

Handlers ==
  \E p \in Procs :
    \/ HandleBet(p) \/ BetUser(p) \/ BetRound(p) \/ BetUserSave(p)
    \/ BetRoundSave(p)
    \/ HandleCashout(p) \/ CashoutRound(p) \/ CashoutUser(p)
    \/ CashoutUserSave(p) \/ CashoutRoundSave(p)

Next == Engine \/ Handlers

Spec == Init /\ [][Next]_vars

\* ------------------------------------------- getBustMultiplier on its own
\* hashes a..a m..m c d: any leading digit, a run of equal middle digits and
\* two free low digits; holds 0, 1, 33 and 2^52 - 1
BustInputs ==
  {<<a, m, m, m, m, m, m, m, m, m, m, c, d>> :
     a \in HexDigit, m \in {0, 7, 15}, c \in {0, 2, 15}, d \in HexDigit}

InitBust ==
  /\ InitCommon
  /\ nfail = 0
  /\ archived = 0 /\ rounds = <<>> /\ seeds = <<>>
  /\ hashIn \in BustInputs
  /\ bustOut = -1

Bust ==
  /\ bustOut = -1
  /\ bustOut' = getBustMultiplier(hashIn)
  /\ UNCHANGED <<clockVars, engineVars, storeVars, handlerVars, ghostVars,
                 nreq, nfail, hashIn, spc, sdoc>>

NextBust == Bust

SpecBust == InitBust /\ [][NextBust]_vars

\* ------------------------------------------- ensureSeed called concurrently
\* caller c invokes ensureSeed, for the first time or again after its last
\* call has settled: line 48 issues the find
SeedCall(c) ==
  /\ spc[c] \in {"idle", "returned", "rejected"}
  /\ spc' = [spc EXCEPT ![c] = "find"]
  /\ sdoc' = [sdoc EXCEPT ![c] = NoSeed]
  /\ UNCHANGED <<clockVars, engineVars, storeVars, handlerVars, ghostVars,
                 nreq, nfail, hashIn, bustOut>>

\* lines 48-52: the find resolves; a missing seed is generated
SeedFindOne(c) ==
  /\ spc[c] = "find"
  /\ \E ok \in StoreOutcomes :
       IF ~ok
       THEN /\ spc' = [spc EXCEPT ![c] = "rejected"]
            /\ nfail' = nfail + 1
            /\ UNCHANGED sdoc
       ELSE /\ nfail' = nfail
            /\ IF findUnrevealed # 0
               THEN /\ sdoc' = [sdoc EXCEPT ![c] = seeds[findUnrevealed]]
                    /\ spc' = [spc EXCEPT ![c] = "returned"]
               ELSE /\ \E s \in SeedPool \ ({seeds[i].serverSeed : i \in 1..Len(seeds)}
                                          \cup {sdoc[d].serverSeed : d \in Callers}) :
                         sdoc' = [sdoc EXCEPT ![c] =
                                    [serverSeed |-> s, serverSeedHash |-> sha256[s],
                                     revealed |-> FALSE, id |-> 0]]
                    /\ spc' = [spc EXCEPT ![c] = "save"]
  /\ UNCHANGED <<clockVars, engineVars, storeVars, handlerVars, ghostVars,
                 nreq, hashIn, bustOut>>

\* lines 53-55: the new seed document is saved and returned
SeedDocSave(c) ==
  /\ spc[c] = "save"
  /\ \E ok \in StoreOutcomes :
       IF ~ok
       THEN /\ spc' = [spc EXCEPT ![c] = "rejected"]
            /\ nfail' = nfail + 1
            /\ UNCHANGED <<seeds, sdoc>>
       ELSE /\ nfail' = nfail
            /\ sdoc' = [sdoc EXCEPT ![c].id = Len(seeds) + 1]
            /\ seeds' = Append(seeds, sdoc'[c])
            /\ spc' = [spc EXCEPT ![c] = "returned"]
  /\ UNCHANGED <<clockVars, engineVars, users, rounds, archived, handlerVars,
                 ghostVars, nreq, hashIn, bustOut>>

\* the seed collection is empty or holds one unrevealed seed
InitSeed ==
  /\ InitCommon
  /\ nfail = 0
  /\ archived = 0 /\ rounds = <<>>
  /\ seeds \in {<<>>, <<OldSeed>>}
  /\ hashIn = <<>>
  /\ bustOut = 0

NextSeed == \E c \in Callers : SeedCall(c) \/ SeedFindOne(c) \/ SeedDocSave(c)

SpecSeed == InitSeed /\ [][NextSeed]_vars

\* ------------------------------------------------------------- properties
RECURSIVE SumAmount(_)
\* sum of the amounts of a list of bets
SumAmount(log) ==
  IF log = <<>> THEN 0 ELSE Head(log).amount + SumAmount(Tail(log))

RECURSIVE SumWinnings(_)
\* sum of the winnings of a list of cashouts
SumWinnings(log) ==
  IF log = <<>> THEN 0 ELSE Head(log).winnings + SumWinnings(Tail(log))

\* what wallet w has staked in the bets recorded on round r
StakedIn(r, w) ==
  LET mine(b) == b.walletAddress = w IN SumAmount(SelectSeq(rounds[r].bets, mine))

RECURSIVE StakedUpTo(_, _)
StakedUpTo(r, w) == IF r = 0 THEN 0 ELSE StakedIn(r, w) + StakedUpTo(r - 1, w)

\* steps in which a handler's effect reaches the store: the save of the
\* user lowers, respectively raises, the stored balance; the save of the
\* round appends the bet, respectively flags it
BetDebit(p) ==
  hpc[p] = "bet_usave" /\ users'[hloc[p].wallet] < users[hloc[p].wallet]
BetAppend(p) == hpc[p] = "bet_rsave" /\ resp'[p] = "BET_PLACED"
CashoutCredit(p) ==
  hpc[p] = "co_usave" /\ users'[hloc[p].wallet] > users[hloc[p].wallet]
CashoutFlag(p) == hpc[p] = "co_rsave" /\ resp'[p] = "CASHOUT_SUCCESS"

\* round r is the engine's round and its tick loop has not detected the crash
RoundRunning(r) == isRunning /\ r = round

\* C1: for every bet of every round at most one cashout succeeds (is
\* answered CASHOUT_SUCCESS), also when two cashouts of the wallet interleave
C1_SingleCashout ==
  \A i, j \in 1..Len(wins) :
    (wins[i].rnd = wins[j].rnd /\ wins[i].bidx = wins[j].bidx) => i = j

\* C2: a bet's balance decrement and its append to the bet list happen only
\* while the phase is waiting
C2_BetOnlyWhileWaiting ==
  [][\A p \in Procs : (BetDebit(p) \/ BetAppend(p)) => gameState = "waiting"]_vars

\* C3: a cashout's balance credit and its cashedOut flag happen only while
\* the bet's round is running, never after the round has crashed
C3_CashoutOnlyWhileRunning ==
  [][\A p \in Procs :
       (CashoutCredit(p) \/ CashoutFlag(p)) => RoundRunning(hloc[p].rnd)]_vars

\* C4: every round's bet list holds at most one bet per wallet that is not
\* cashed out
C4_OneActiveBet ==
  \A r \in 1..Len(rounds) : \A w \in Wallets :
    Cardinality({i \in 1..Len(rounds[r].bets) :
                   /\ rounds[r].bets[i].walletAddress = w
                   /\ ~rounds[r].bets[i].cashedOut}) <= 1

\* C5: for a wallet whose accepted bets and cashouts all belong to one round,
\* the balance it had before the round minus its accepted bets plus its
\* accepted winnings is not negative
C5_NeverOverdrawn ==
  \A w \in Registered : \A r \in 1..Len(rounds) :
    LET mine(e) == e.wallet = w
        here(e) == e.wallet = w /\ e.rnd = r
    IN (/\ SelectSeq(placed, mine) = SelectSeq(placed, here)
        /\ SelectSeq(wins, mine) = SelectSeq(wins, here))
       => DefaultBalance - SumAmount(SelectSeq(placed, here))
                         + SumWinnings(SelectSeq(wins, here)) >= 0

\* C6: every bet recorded in a round has a positive amount
C6_PositiveAmount ==
  \A r \in 1..Len(rounds) : \A i \in 1..Len(rounds[r].bets) :
    rounds[r].bets[i].amount > 0

\* C7: placing a bet is all-or-nothing: once the only request issued so far
\* has returned, every wallet's balance is its starting balance minus what
\* its recorded bets staked
C7_AllOrNothing ==
  (Requests = 1 /\ \A p \in Procs : hpc[p] = "idle")
    => \A w \in Registered : users[w] = DefaultBalance - StakedUpTo(Len(rounds), w)

\* C8: once a round's crashMultiplier has been set with its roundHash at the
\* transition into running, it never changes
C8_CrashMultiplierFixed ==
  [][\A r \in 1..Len(rounds) :
       rounds[r].roundHash # <<>>
         => rounds'[r].crashMultiplier = rounds[r].crashMultiplier]_vars

\* the server seed whose published hash is h
SeedWithHash(h) == CHOOSE s \in SeedPool : sha256[s] = h

\* crashPoint(serverSeed, clientSeed, nonce) recomputed for round r from the
\* seed committed in its seedHash and its sequence number
Recomputed(r) ==
  CrashPoints[getRoundHash(SeedWithHash(rounds[r].seedHash), archived + r)]

\* C9: the multiplier broadcast in ROUND_CRASHED equals the crash point
\* recomputed from the round's seed and nonce
C9_BroadcastIsCrashPoint ==
  \A i \in 1..Len(bcast.crashed) :
    bcast.crashed[i].multiplier = Recomputed(bcast.crashed[i].rnd)

\* C10: the crash point derived from any 52-bit hash value h is at least
\* 1.01, and exactly 1.01 whenever h mod 33 = 0
C10_AtLeastMinimum ==
  bustOut # -1 =>
    /\ bustOut >= 101
    /\ HexMod(hashIn, 1, 0) = 0 => bustOut = 101

\* seed hash h has been broadcast to observers: in a ROUND_STARTED of this
\* run, or in one of the earlier run that left the database
Published(h) ==
  \/ \E i \in 1..Len(bcast.started) : bcast.started[i].seedHash = h
  \/ archived > 0 /\ h = OldSeed.serverSeedHash

\* C11: the hash of the seed a round is played under has been published
\* before any bet is accepted for the round, and a seed whose commitment is
\* unrevealed in the store has not been broadcast
C11_HashPublishedBeforeBets ==
  /\ \A i \in 1..Len(placed) : Published(rounds[placed[i].rnd].seedHash)
  /\ \A i \in 1..Len(bcast.revealed) : seeds[bcast.revealed[i].id].revealed

\* C12: every request that has ended was answered with BET_PLACED,
\* CASHOUT_SUCCESS or an ERROR
C12_EveryRequestAnswered ==
  \A p \in Procs : resp[p] # "unanswered"

\* round r has crashed: it is the closed round an earlier run left, a newer
\* round exists, or the engine's tick loop has detected its crash
AfterCrash == {"end_find", "end_save", "end_count", "reveal_find",
               "reveal_save", "cooldown", "ensureSeed_find",
               "ensureSeed_save", "round_create"}
Crashed(r) ==
  \/ archived > 0 /\ r = 1
  \/ r < Len(rounds)
  \/ r = round /\ epc \in AfterCrash

\* C13: a bet accepted while the phase is waiting is never appended to a
\* round that has already crashed
C13_BetOnNextRound ==
  [][\A p \in Procs :
       (BetAppend(p) /\ gameState = "waiting") => ~Crashed(hloc[p].rnd)]_vars

\* timers fire and pending promises settle: every enabled engine step is
\* eventually taken; after an unhandled rejection the process may have ended
\* and no countdown firing is owed
EngineFair ==
  /\ WF_vars(StartGame) /\ WF_vars(EnsureSeedFind) /\ WF_vars(EnsureSeedSave)
  /\ WF_vars(RoundCreate) /\ WF_vars(epc # "unhandled" /\ CountdownTick)
  /\ WF_vars(RoundStartTimeout) /\ WF_vars(StartCount) /\ WF_vars(StartSave)
  /\ WF_vars(Tick) /\ WF_vars(EndFind) /\ WF_vars(EndSave)
  /\ WF_vars(EndCount) /\ WF_vars(RevealFind) /\ WF_vars(RevealSave)

\* the engine alone, no request arriving, under fair scheduling
NextEngine == Engine
SpecEngine == Init /\ [][NextEngine]_vars /\ EngineFair

\* no store operation fails: the engine starts with its failures used up
InitLive ==
  /\ InitCommon
  /\ nfail = MaxFailures
  /\ EmptyStore \/ OldStore
  /\ hashIn = <<>>
  /\ bustOut = 0

NextLive == Engine
SpecLive == InitLive /\ [][NextLive]_vars /\ EngineFair

\* C15: after a store failure while a round is being set up (the seed lookup
\* or the creation of the round, phase still waiting) the engine eventually
\* has a fresh round in its countdown
C15_ResumesAfterFailure ==
  (epc = "dead" /\ gameState = "waiting") ~> (epc = "countdown")

\* ROUND_STARTED, respectively ROUND_CRASHED, has been broadcast for round r
StartedRound(r) == \E i \in 1..Len(bcast.started) : bcast.started[i].rnd = r
CrashedRound(r) == \E i \in 1..Len(bcast.crashed) : bcast.crashed[i].rnd = r

\* endGame has ended for the engine's round, by reaching its last line or by
\* a rejection
EndGameOver == epc \in {"cooldown", "unhandled", "dead"}

\* C16: SEED_REVEALED is broadcast only at the end of a round that makes the
\* number of completed rounds a multiple of 100, once for that round and with
\* the commitment marked revealed; no commitment's raw seed is broadcast
\* twice; and when endGame has ended for such a round, completed with its
\* ROUND_CRASHED, the reveal has happened.  Every document before the engine's
\* round is of a completed round (the earlier run's rounds are closed), so
\* the round is completed round number archived + round = countDocuments
C16_RevealCadence ==
  /\ \A i \in 1..Len(bcast.revealed) :
       /\ (archived + bcast.revealed[i].rnd) % RevealEvery = 0
       /\ seeds[bcast.revealed[i].id].revealed
  /\ \A i, j \in 1..Len(bcast.revealed) :
       (\/ bcast.revealed[i].rnd = bcast.revealed[j].rnd
        \/ bcast.revealed[i].id = bcast.revealed[j].id) => i = j
  /\ (/\ EndGameOver
      /\ CrashedRound(round)
      /\ countDocuments % RevealEvery = 0)
       => \E i \in 1..Len(bcast.revealed) : bcast.revealed[i].rnd = round

\* C17: whatever the interleaving of concurrent ensureSeed calls, the store
\* holds at most one unrevealed seed commitment
C17_AtMostOneUnrevealed ==
  Cardinality(Unrevealed) <= 1

\* a tick of the running round's interval fires
TickFires == timeElapsed' = timeElapsed + 1

\* C18: at most one tick loop is active; a tick fires only for a round whose
\* loop is set and that has not crashed; the tick that brings currentMultiplier
\* to crashPoint or above clears the loop; a loop is started only when none is
\* active, for a round that has not crashed; ROUND_CRASHED is broadcast at most
\* once per round, and once endGame has ended for a round whose loop was set
\* and has been stopped, it has been broadcast for that round
C18_TickLoopStoppedOnce ==
  /\ [](/\ Cardinality(interval) <= 1
        /\ \A i, j \in 1..Len(bcast.crashed) :
             bcast.crashed[i].rnd = bcast.crashed[j].rnd => i = j
        /\ (StartedRound(round) /\ round \notin interval /\ EndGameOver)
             => CrashedRound(round))
  /\ [][/\ TickFires
           => /\ round \in interval
              /\ currentMultiplier < crashPoint \/ timeElapsed = 0
              /\ currentMultiplier' >= crashPoint => interval' = {}
        /\ interval' \ interval # {}
           => /\ interval = {}
              /\ \A r \in interval' :
                   \A i \in 1..Len(bcast.crashed) : bcast.crashed[i].rnd # r]_vars

\* C19: without store failures and with fair timers, every round that is
\* waiting in its countdown eventually runs, every running round eventually
\* crashes, after every crash the next round eventually waits in its
\* countdown (as long as the bound on rounds allows one), and no round crashes
\* without having started or starts before the round before it has crashed
C19_EngineLoops ==
  /\ \A r \in 1..(MaxRounds + 1) :
       /\ (round = r /\ epc = "countdown")
            ~> (round = r /\ gameState = "running" /\ isRunning)
       /\ (round = r /\ isRunning) ~> (CrashedRound(r) /\ ~isRunning)
       /\ (round = r /\ CrashedRound(r) /\ RoomForRound)
            ~> (round = r + 1 /\ epc = "countdown" /\ gameState = "waiting")
  /\ [](/\ Len(bcast.crashed) <= Len(bcast.started)
        /\ Len(bcast.started) <= Len(bcast.crashed) + 1
        /\ \A i \in 1..Len(bcast.crashed) :
             bcast.crashed[i].rnd = bcast.started[i].rnd)

\* the engine has gone round the loop: a round has crashed and the next one
\* is running
C19_Witness ==
  /\ nfail = MaxFailures
  /\ isRunning
  /\ Len(bcast.crashed) >= 1
  /\ StartedRound(round)
  /\ ~CrashedRound(round)

ErrorMessages ==
  {"ERROR: Betting closed.", "ERROR: User not found.",
   "ERROR: Insufficient balance.", "ERROR: No active round.",
   "ERROR: Cannot cash out now.", "ERROR: No active bet.",
   "ERROR: Already cashed out."}

\* positions of a handler from which it can still answer ERROR
BeforeWrites == {"idle", "bet_user", "bet_round", "co_round"}

\* a step of p's handler: a request enters slot p, or p's handler resumes
HandlerStep(p) ==
  \/ FreeSlot(p) /\ nreq' # nreq
  \/ hpc[p] # "idle" /\ (hpc'[p] # hpc[p] \/ resp'[p] # resp[p])

\* the step in which p's request is answered with an ERROR message
AnsweredError(p) ==
  /\ HandlerStep(p)
  /\ resp'[p] \in ErrorMessages
  /\ resp[p] = "pending" \/ hpc[p] = "idle"

\* C20: a request is answered ERROR only before any of its writes, and none
\* of its steps up to and including that answer changes a balance, a round's
\* bets or cashedOut flags, the phase, currentMultiplier or the elapsed time
C20_ErrorChangesNothing ==
  [][\A p \in Procs :
       /\ AnsweredError(p) => hpc[p] \in BeforeWrites
       /\ (HandlerStep(p) /\ hpc[p] \in BeforeWrites)
            => UNCHANGED <<users, rounds, gameState, isRunning,
                           currentMultiplier, timeElapsed>>]_vars

\* a request has been answered ERROR after a bet of another request was
\* accepted
C20_Witness ==
  /\ \E p \in Procs : resp[p] \in ErrorMessages /\ hpc[p] = "idle"
  /\ Len(placed) >= 1
====
